---- MODULE Spec2Model ----
(***************************************************************************)
(* Model of the SVL firmware-upload core of                                *)
(* tools/artemis_firmware_uploader_gui.py: the CRC16 engine, the packet     *)
(* codec (send_packet / wait_for_packet) and the Uploader session          *)
(* (upload_main, phase_setup, phase_bootload) talking to a serial          *)
(* transport whose other end is the device.                                *)
(***************************************************************************)
EXTENDS Integers, Sequences, FiniteSets, TLC

(***************************************************************************)
(* Program constants                                                        *)
(***************************************************************************)
SVL_CMD_VER == 1
SVL_CMD_BL == 2
SVL_CMD_NEXT == 3
SVL_CMD_FRAME == 4
SVL_CMD_RETRY == 5
SVL_CMD_DONE == 6
SVL_CMD_MSG == 7
SVL_CMD_DATE == 8
BOOTLOADER_VERSION == 6
num_tries == 3
resend_max == 4
frame_size == 2048
packet_counter_max == 10

crcTable ==
    << 0, 32773, 32783, 10, 32795, 30, 20, 32785,
       32819, 54, 60, 32825, 40, 32813, 32807, 34,
       32867, 102, 108, 32873, 120, 32893, 32887, 114,
       80, 32853, 32863, 90, 32843, 78, 68, 32833,
       32963, 198, 204, 32969, 216, 32989, 32983, 210,
       240, 33013, 33023, 250, 33003, 238, 228, 32993,
       160, 32933, 32943, 170, 32955, 190, 180, 32945,
       32915, 150, 156, 32921, 136, 32909, 32903, 130,
       33155, 390, 396, 33161, 408, 33181, 33175, 402,
       432, 33205, 33215, 442, 33195, 430, 420, 33185,
       480, 33253, 33263, 490, 33275, 510, 500, 33265,
       33235, 470, 476, 33241, 456, 33229, 33223, 450,
       320, 33093, 33103, 330, 33115, 350, 340, 33105,
       33139, 374, 380, 33145, 360, 33133, 33127, 354,
       33059, 294, 300, 33065, 312, 33085, 33079, 306,
       272, 33045, 33055, 282, 33035, 270, 260, 33025,
       33539, 774, 780, 33545, 792, 33565, 33559, 786,
       816, 33589, 33599, 826, 33579, 814, 804, 33569,
       864, 33637, 33647, 874, 33659, 894, 884, 33649,
       33619, 854, 860, 33625, 840, 33613, 33607, 834,
       960, 33733, 33743, 970, 33755, 990, 980, 33745,
       33779, 1014, 1020, 33785, 1000, 33773, 33767, 994,
       33699, 934, 940, 33705, 952, 33725, 33719, 946,
       912, 33685, 33695, 922, 33675, 910, 900, 33665,
       640, 33413, 33423, 650, 33435, 670, 660, 33425,
       33459, 694, 700, 33465, 680, 33453, 33447, 674,
       33507, 742, 748, 33513, 760, 33533, 33527, 754,
       720, 33493, 33503, 730, 33483, 718, 708, 33473,
       33347, 582, 588, 33353, 600, 33373, 33367, 594,
       624, 33397, 33407, 634, 33387, 622, 612, 33377,
       544, 33317, 33327, 554, 33339, 574, 564, 33329,
       33299, 534, 540, 33305, 520, 33293, 33287, 514 >>

(***************************************************************************)
(* Bounds of the model                                                      *)
(***************************************************************************)
MaxDataLen == 2
MaxFrames == 2

(***************************************************************************)
(* Integer helpers: Python's ^, | on non-negative ints, int.to_bytes and   *)
(* int.from_bytes with byteorder 'big'.                                     *)
(***************************************************************************)
\* a ^ b, bit by bit
XorBits[a \in Nat, b \in Nat] ==
    IF a = 0 THEN b
    ELSE IF b = 0 THEN a
    ELSE (((a % 2) + (b % 2)) % 2) + 2 * XorBits[a \div 2, b \div 2]

Xor(a, b) == XorBits[a, b]

\* a | b, bit by bit
OrBits[a \in Nat, b \in Nat] ==
    IF a = 0 THEN b
    ELSE IF b = 0 THEN a
    ELSE (IF (a % 2) = 1 \/ (b % 2) = 1 THEN 1 ELSE 0) + 2 * OrBits[a \div 2, b \div 2]

BitOr(a, b) == OrBits[a, b]

Min(a, b) == IF a < b THEN a ELSE b

\* n.to_bytes(2, 'big'); Python raises OverflowError for n >= 65536
OverflowError == <<-2>>

to_bytes2(n) == IF n < 65536 THEN <<n \div 256, n % 256>> ELSE OverflowError

to_bytes1(n) == IF n < 256 THEN <<n>> ELSE OverflowError

RECURSIVE from_bytes_big(_)
from_bytes_big(b) ==
    IF Len(b) = 0 THEN 0
    ELSE (from_bytes_big(SubSeq(b, 1, Len(b) - 1)) * 256) + b[Len(b)]

(***************************************************************************)
(* CRC16 engine                                                             *)
(***************************************************************************)
\* crc = 0x0000
crc_init_mut == (256 * 256) - 1

crc_init == 0

\* tableAddr = ch ^ (crc >> 8)
table_addr(crc, ch) == Xor(ch, crc \div 256)

crc_step_mut(crc, ch) ==
    LET tableAddr == table_addr(crc, ch)
        CRCH == (crcTable[tableAddr + 1]) \div 256
        CRCL == (crcTable[tableAddr + 1]) % 256
    IN  BitOr(CRCH * 256, CRCL)

crc_step(crc, ch) ==
    LET tableAddr == table_addr(crc, ch)
        CRCH == Xor((crcTable[tableAddr + 1]) \div 256, crc % 256)
        CRCL == (crcTable[tableAddr + 1]) % 256
    IN  BitOr(CRCH * 256, CRCL)

\* crc = 0x0000, then the for loop over the bytes of data
get_crc16(data) ==
    LET loop[i \in Nat, crc \in Nat] ==
            IF i > Len(data) THEN crc
            ELSE loop[i + 1, crc_step(crc, data[i])]
    IN  loop[1, crc_init]

(***************************************************************************)
(* Transport read: ser.read(n) returns at most n bytes of what arrives     *)
(* within the timeout; fewer than n means the read timed out.              *)
(***************************************************************************)
ser_read(buf, n) == SubSeq(buf, 1, Min(n, Len(buf)))

ser_rest(buf, n) == SubSeq(buf, Min(n, Len(buf)) + 1, Len(buf))

(***************************************************************************)
(* Packet codec                                                             *)
(***************************************************************************)
\* the int 0 that packet['data'] holds until a payload is decoded (it is
\* not a byte string)
data_unset == <<-1>>

packet_default == [len |-> 0, cmd |-> 0, data |-> data_unset, crc |-> 1, timeout |-> 1]

payload_data_mut(payload, len) == SubSeq(payload, 2, len - 1)

\* payload[1:len-2] of Python
payload_data(payload, len) == SubSeq(payload, 2, len - 2)

wait_for_packet_mut(buf) ==
    LET n == ser_read(buf, 2)
        rest1 == ser_rest(buf, 2)
    IN  IF Len(n) < 2
        THEN [packet |-> packet_default, rest |-> rest1, hdr |-> Len(n), pay |-> -1]
        ELSE LET len == from_bytes_big(n)
                 p1 == [packet_default EXCEPT !.len = len]
             IN  IF len = 0
                 THEN [packet |-> p1, rest |-> rest1, hdr |-> 2, pay |-> -1]
                 ELSE LET payload == ser_read(rest1, len)
                          rest2 == ser_rest(rest1, len)
                          p2 == IF Len(payload) > 0
                                THEN [p1 EXCEPT !.cmd = payload[1]]
                                ELSE p1
                      IN  IF Len(payload) # len
                          THEN [packet |-> p2, rest |-> rest2,
                                hdr |-> 2, pay |-> Len(payload)]
                          ELSE [packet |-> [len |-> len,
                                            cmd |-> payload[1],
                                            data |-> payload_data(payload, len),
                                            crc |-> get_crc16(payload),
                                            timeout |-> 0],
                                rest |-> rest2, hdr |-> 2, pay |-> len]

\* wait_for_packet(ser) on an input buffer buf: the packet returned, the
\* bytes left in the buffer, and the number of bytes each ser.read call
\* returned (hdr for the length read, pay for the payload read, -1 when the
\* payload read was not made)
wait_for_packet(buf) ==
    LET n == ser_read(buf, 2)
        rest1 == ser_rest(buf, 2)
    IN  IF Len(n) < 2
        THEN [packet |-> packet_default, rest |-> rest1, hdr |-> Len(n), pay |-> -1]
        ELSE LET len == from_bytes_big(n)
                 p1 == [packet_default EXCEPT !.len = len]
             IN  IF len = 0
                 THEN [packet |-> p1, rest |-> rest1, hdr |-> 2, pay |-> -1]
                 ELSE LET payload == ser_read(rest1, len)
                          rest2 == ser_rest(rest1, len)
                      IN  IF Len(payload) # len
                          THEN [packet |-> p1, rest |-> rest2,
                                hdr |-> 2, pay |-> Len(payload)]
                          ELSE [packet |-> [len |-> len,
                                            cmd |-> payload[1],
                                            data |-> payload_data(payload, len),
                                            crc |-> get_crc16(payload),
                                            timeout |-> 0],
                                rest |-> rest2, hdr |-> 2, pay |-> len]

send_packet_mut(cmd, data) ==
    LET num_bytes == 3 + Len(data)
        payload0 == to_bytes1(cmd) \o data
        crc == get_crc16(payload0)
        payload == payload0 \o to_bytes2(crc)
    IN  << to_bytes2(num_bytes) \o payload >>

\* send_packet(ser, cmd, data): the sequence of ser.write calls it makes
send_packet(cmd, data) ==
    LET num_bytes == 3 + Len(data)
        payload0 == to_bytes1(cmd) \o data
        crc == get_crc16(payload0)
        payload == payload0 \o to_bytes2(crc)
    IN  << to_bytes2(num_bytes), payload >>


(***************************************************************************)
(* State                                                                    *)
(***************************************************************************)
VARIABLES
    pc,                     \* position of the worker thread in upload_main
    ser,                    \* the serial object the Uploader holds: "none", "closed", "open"
    rx,                     \* input buffer of the serial port (bytes from the device)
    total_len,              \* length of the firmware image file
    tries,                  \* iterations of upload_main's for loop started
    installed_bootloader,   \* self.installed_bootloader
    packet,                 \* packet returned by the last wait_for_packet
    rd,                     \* bytes returned by the reads of the last wait_for_packet
    vesion_pkg_received,    \* phase_setup locals
    setup_failed,
    packet_counter,
    curr_frame,             \* phase_bootload locals
    resend_count,
    done_sent,
    bl_done,
    bl_failed,
    sent,                   \* send_packet calls made by the session, in order
    attempt_base,           \* Len(sent) when the current attempt started
    out,                    \* signals emitted by the last worker step, in order
    setup_reads,            \* wait_for_packet calls made by phase_setup in this attempt
    triggers,               \* writes of upgrade_cmd made in this session
    all_timed_out,          \* no length read of this session has returned 2 bytes
    raised,                 \* an exception reached upload_main's except clause
    succeeded,              \* phase_bootload returned False in this session
    upload_btn,             \* the Upload button of the main window is enabled
    nominal,                \* every wait_for_packet of this Bootload phase returned a
                            \* well-formed NEXT (before the host's DONE) or DONE
    arg,                    \* codec check: the (cmd, data) given to send_packet
    tx,                     \* codec check: the ser.write calls made by send_packet
    full,                   \* codec check: the link delivered every written byte
    crcres                  \* codec check: results of get_crc16

vars == << pc, ser, rx, total_len, tries, installed_bootloader, packet,
           rd, vesion_pkg_received, setup_failed, packet_counter, curr_frame,
           resend_count, done_sent, bl_done, bl_failed, sent, attempt_base,
           out, setup_reads, triggers, all_timed_out, raised, succeeded,
           nominal, upload_btn,
           arg, tx, full, crcres >>

sessionVars == << ser, total_len, tries, installed_bootloader,
                  vesion_pkg_received, setup_failed, packet_counter, curr_frame,
                  resend_count, done_sent, bl_done, bl_failed, sent,
                  attempt_base, out, setup_reads, triggers, all_timed_out,
                  raised, succeeded, nominal >>

codecVars == << arg, tx, full, crcres >>

phaseVars == << vesion_pkg_received, setup_failed, packet_counter, curr_frame,
                resend_count, done_sent, bl_done, bl_failed >>

(***************************************************************************)
(* Signals                                                                  *)
(***************************************************************************)
Local(text) == [ch |-> "addMessage", text |-> text, data |-> <<>>]

Remote(data) == [ch |-> "addMessageRemote", text |-> "", data |-> data]

Finished == [ch |-> "finished", text |-> "", data |-> <<>>]

\* bytes.decode('ascii') raises UnicodeDecodeError on a byte above 127
ascii_ok(data) == \A i \in 1..Len(data) : data[i] < 128

(***************************************************************************)
(* The firmware image and its frames                                        *)
(***************************************************************************)
ceil_div(a, b) == (a + b - 1) \div b

total_frames == ceil_div(total_len, frame_size)

\* Python's index normalisation of a slice bound on a sequence of length n
slice_bound(n, i) == IF i < 0 THEN (IF i + n < 0 THEN 0 ELSE i + n)
                     ELSE (IF i > n THEN n ELSE i)

\* application[a:b]: the half-open range of image offsets it selects
py_slice(n, a, b) ==
    LET lo == slice_bound(n, a)
        hi == slice_bound(n, b)
    IN  IF lo < hi THEN [lo |-> lo, hi |-> hi] ELSE [lo |-> 0, hi |-> 0]

frame_data_mut(f) == py_slice(total_len, f * frame_size, (f + 1) * frame_size)

\* application[((curr_frame-1)*frame_size):((curr_frame-1+1)*frame_size)]
frame_data(f) == py_slice(total_len, (f - 1) * frame_size, (f - 1 + 1) * frame_size)

\* a send_packet call of the session: command, image range carried as data
\* (empty for b''), and the frame number it was cut for
Sent(cmd, f, sl) == [cmd |-> cmd, frame |-> f, lo |-> sl.lo, hi |-> sl.hi]

empty_data == [lo |-> 0, hi |-> 0]

ImageLens == {0, frame_size, ((MaxFrames - 1) * frame_size) + 1}

(***************************************************************************)
(* The device end of the link                                               *)
(***************************************************************************)
Flat(writes) == writes[1] \o writes[2]

DevicePackets ==
    { <<SVL_CMD_VER, <<5>> >>, <<SVL_CMD_VER, <<1, 0>> >>,
      <<SVL_CMD_MSG, <<72>> >>, <<SVL_CMD_MSG, <<200>> >>,
      <<SVL_CMD_NEXT, <<>> >>, <<SVL_CMD_RETRY, <<>> >>, <<SVL_CMD_DONE, <<>> >>,
      <<SVL_CMD_BL, <<>> >> }

DamagedPackets ==
    { <<SVL_CMD_VER, <<5>> >>, <<SVL_CMD_MSG, <<72>> >>,
      <<SVL_CMD_NEXT, <<>> >>, <<SVL_CMD_DONE, <<>> >> }

\* a packet damaged in transit: last CRC byte changed
Corrupt(bytes) == [bytes EXCEPT ![Len(bytes)] = (bytes[Len(bytes)] + 1) % 256]

\* a packet cut short: last byte never arrives
Truncate(bytes) == SubSeq(bytes, 1, Len(bytes) - 1)

DeviceResponses ==
    { Flat(send_packet(p[1], p[2])) : p \in DevicePackets }
    \cup { Corrupt(Flat(send_packet(p[1], p[2]))) : p \in DamagedPackets }
    \cup { Truncate(Flat(send_packet(SVL_CMD_NEXT, <<>>))), <<0, 0>>, <<7>> }


(***************************************************************************)
(* Initial states                                                           *)
(***************************************************************************)
no_read == [hdr |-> -1, pay |-> -1]

no_arg == [cmd |-> 0, data |-> <<>>]

no_crc == [p |-> <<>>, crc |-> 0, residue |-> 0]

\* on_upload_btn_pressed has returned: Uploader.__init__ has run with the
\* port and the file the main window hands over, the worker thread is
\* started and the buttons are disabled
Init ==
    /\ pc = "start"
    /\ ser \in {"none", "closed", "open"}
    /\ rx = <<>>
    /\ total_len \in ImageLens
    /\ tries = 0
    /\ installed_bootloader = -1
    /\ packet = packet_default
    /\ rd = no_read
    /\ vesion_pkg_received = FALSE
    /\ setup_failed = FALSE
    /\ packet_counter = 0
    /\ curr_frame = 0
    /\ resend_count = 0
    /\ done_sent = FALSE
    /\ bl_done = FALSE
    /\ bl_failed = FALSE
    /\ sent = <<>>
    /\ attempt_base = 0
    /\ out = <<>>
    /\ setup_reads = 0
    /\ triggers = 0
    /\ all_timed_out = TRUE
    /\ raised = FALSE
    /\ succeeded = FALSE
    /\ nominal = FALSE
    /\ upload_btn = FALSE
    /\ arg = no_arg
    /\ tx = <<>>
    /\ full = FALSE
    /\ crcres = no_crc

(***************************************************************************)
(* upload_main                                                              *)
(***************************************************************************)
\* for _ in range(num_tries): is there another iteration after t of them
range_has_next_mut(t) == t <= num_tries

range_has_next(t) == t < num_tries

\* int.from_bytes(packet['data'], 'big') of the version packet
RECURSIVE version_of_mut(_)
version_of_mut(data) ==
    IF Len(data) = 0 THEN 0
    ELSE (version_of_mut(SubSeq(data, 2, Len(data))) * 256) + data[1]

version_of(data) == from_bytes_big(data)

\* where upload_main goes when a phase has returned bl_failed = failed
after_attempt_mut(failed, t) ==
    IF range_has_next(t) THEN "setup_begin" ELSE "post"

after_attempt(failed, t) ==
    IF ~failed THEN "post"
    ELSE IF range_has_next(t) THEN "setup_begin" ELSE "post"

\* an exception leaves the try block
Raise_mut(events) ==
    /\ pc' = after_attempt(TRUE, tries)
    /\ raised' = TRUE
    /\ out' = events

Raise(events) ==
    /\ pc' = "except"
    /\ raised' = TRUE
    /\ out' = events

upload_main ==
    /\ pc = "start"
    /\ pc' = "setup_begin"
    /\ out' = << Local("Artemis SVL Uploader") >>
    /\ UNCHANGED << ser, rx, total_len, tries, installed_bootloader,
                    packet, rd, phaseVars, sent, attempt_base, setup_reads,
                    triggers, all_timed_out, raised, succeeded, nominal, upload_btn, codecVars >>

\* the out-of-date advisory after the loop, then finished.emit()
post_session_mut ==
    /\ pc = "post"
    /\ pc' = "except"
    /\ out' = (IF installed_bootloader >= 0 /\ installed_bootloader < BOOTLOADER_VERSION
               THEN << Local("Your bootloader is out of date") >>
               ELSE << >>) \o << Finished >>
    /\ UNCHANGED << ser, rx, total_len, tries, installed_bootloader,
                    packet, rd, phaseVars, sent, attempt_base, setup_reads,
                    triggers, all_timed_out, raised, succeeded, nominal, upload_btn, codecVars >>

post_session ==
    /\ pc = "post"
    /\ pc' = "finished"
    /\ out' = (IF installed_bootloader >= 0 /\ installed_bootloader < BOOTLOADER_VERSION
               THEN << Local("Your bootloader is out of date") >>
               ELSE << >>) \o << Finished >>
    /\ UNCHANGED << ser, rx, total_len, tries, installed_bootloader,
                    packet, rd, phaseVars, sent, attempt_base, setup_reads,
                    triggers, all_timed_out, raised, succeeded, nominal, upload_btn, codecVars >>

\* the bare except clause, then finished.emit()
except_clause ==
    /\ pc = "except"
    /\ pc' = "finished"
    /\ out' = << Local("Could not communicate with board!"), Finished >>
    /\ UNCHANGED << ser, rx, total_len, tries, installed_bootloader,
                    packet, rd, phaseVars, sent, attempt_base, setup_reads,
                    triggers, all_timed_out, raised, succeeded, nominal, upload_btn, codecVars >>

(***************************************************************************)
(* phase_setup                                                              *)
(***************************************************************************)
\* loop iteration of upload_main starts; phase_setup up to the write of
\* upgrade_cmd
setup_begin ==
    /\ pc = "setup_begin"
    /\ tries' = tries + 1
    /\ vesion_pkg_received' = FALSE
    /\ setup_failed' = FALSE
    /\ packet_counter' = 0
    /\ setup_reads' = 0
    /\ attempt_base' = Len(sent)
    /\ IF ser = "open"
       THEN /\ triggers' = triggers + 1
            /\ pc' = "setup_settle"
            /\ out' = << Local("Phase: Setup"), Local("Sent upgrade_cmd") >>
            /\ UNCHANGED raised
       ELSE /\ Raise(<< Local("Phase: Setup") >>)
            /\ UNCHANGED triggers
    /\ UNCHANGED << ser, rx, total_len, installed_bootloader, packet, rd,
                    curr_frame, resend_count, done_sent, bl_done, bl_failed,
                    sent, all_timed_out, succeeded, nominal, upload_btn, codecVars >>

\* time.sleep(5), then ser.reset_input_buffer()
setup_settle_mut ==
    /\ pc = "setup_settle"
    /\ IF ser = "open"
       THEN /\ rx' = rx
            /\ pc' = "setup_baud"
            /\ out' = << Local("Cleared startup blip") >>
            /\ UNCHANGED raised
       ELSE /\ Raise(<< >>)
            /\ UNCHANGED rx
    /\ UNCHANGED << ser, total_len, tries, installed_bootloader, packet,
                    rd, phaseVars, sent, attempt_base, setup_reads, triggers,
                    all_timed_out, succeeded, nominal, upload_btn, codecVars >>

setup_settle ==
    /\ pc = "setup_settle"
    /\ IF ser = "open"
       THEN /\ rx' = <<>>
            /\ pc' = "setup_baud"
            /\ out' = << Local("Cleared startup blip") >>
            /\ UNCHANGED raised
       ELSE /\ Raise(<< >>)
            /\ UNCHANGED rx
    /\ UNCHANGED << ser, total_len, tries, installed_bootloader, packet,
                    rd, phaseVars, sent, attempt_base, setup_reads, triggers,
                    all_timed_out, succeeded, nominal, upload_btn, codecVars >>

\* ser.write(baud_detect_byte)
setup_baud ==
    /\ pc = "setup_baud"
    /\ IF ser = "open"
       THEN /\ pc' = "setup_read"
            /\ out' = << Local("Sent baud_detect_byte") >>
            /\ UNCHANGED raised
       ELSE Raise(<< >>)
    /\ UNCHANGED << ser, rx, total_len, tries, installed_bootloader,
                    packet, rd, phaseVars, sent, attempt_base, setup_reads,
                    triggers, all_timed_out, succeeded, nominal, upload_btn, codecVars >>

\* phase_setup returns setup_failed = TRUE to upload_main
setup_fail_mut(events) ==
    /\ setup_failed' = TRUE
    /\ pc' = after_attempt(TRUE, tries)
    /\ out' = << >>
    /\ UNCHANGED << vesion_pkg_received, installed_bootloader, sent, raised >>

setup_fail(events) ==
    /\ setup_failed' = TRUE
    /\ pc' = after_attempt(TRUE, tries)
    /\ out' = events
    /\ UNCHANGED << vesion_pkg_received, installed_bootloader, sent, raised >>

\* the packet bound of the setup loop
setup_bound_hit_mut(n) == n >= packet_counter_max

setup_bound_hit(n) == n > packet_counter_max

\* a packet that is neither an error nor VER was handled
setup_count(events) ==
    /\ packet_counter' = packet_counter + 1
    /\ IF setup_bound_hit(packet_counter + 1)
       THEN setup_fail(events \o << Local("No version packet received in time") >>)
       ELSE /\ pc' = "setup_read"
            /\ out' = events
            /\ UNCHANGED << setup_failed, vesion_pkg_received,
                            installed_bootloader, sent, raised >>

\* if(packet['crc']) of phase_setup
setup_crc_error_mut(p) == p.crc # 0 /\ p.cmd # SVL_CMD_VER

setup_crc_error(p) == p.crc # 0

\* if(packet['cmd'] == SVL_CMD_VER)
is_version_mut(p) == p.cmd \in {SVL_CMD_VER, SVL_CMD_MSG}

is_version(p) == p.cmd = SVL_CMD_VER

\* send_packet(self.ser, SVL_CMD_BL, b'')
enter_bootloader_mut(log) == log \o << Sent(SVL_CMD_BL, 0, empty_data), Sent(SVL_CMD_BL, 0, empty_data) >>

enter_bootloader(log) == Append(log, Sent(SVL_CMD_BL, 0, empty_data))

\* one iteration of the while loop of phase_setup
setup_loop ==
    /\ pc = "setup_read"
    /\ IF ser # "open"
       THEN /\ Raise(<< >>)
            /\ UNCHANGED << rx, packet, rd, setup_reads, all_timed_out,
                            vesion_pkg_received, setup_failed, packet_counter,
                            installed_bootloader, sent >>
       ELSE LET w == wait_for_packet(rx)
                p == w.packet
            IN  /\ rx' = w.rest
                /\ packet' = p
                /\ rd' = [hdr |-> w.hdr, pay |-> w.pay]
                /\ setup_reads' = setup_reads + 1
                /\ all_timed_out' = (all_timed_out /\ w.hdr < 2)
                /\ IF p.timeout # 0
                   THEN /\ setup_fail(<< Local("wait_for_packet timeout") >>)
                        /\ UNCHANGED packet_counter
                   ELSE IF setup_crc_error(p)
                   THEN /\ setup_fail(<< Local("wait_for_packet crc error") >>)
                        /\ UNCHANGED packet_counter
                   ELSE IF is_version(p)
                   THEN /\ installed_bootloader' = version_of(p.data)
                        /\ vesion_pkg_received' = TRUE
                        /\ sent' = enter_bootloader(sent)
                        /\ pc' = "bootload_begin"
                        /\ out' = << Local("wait_for_packet complete"),
                                     Local("Got SVL Bootloader Version"),
                                     Local("Sending enter bootloader command") >>
                        /\ UNCHANGED << setup_failed, packet_counter, raised >>
                   ELSE IF p.cmd = SVL_CMD_MSG
                   THEN IF ascii_ok(p.data)
                        THEN setup_count(<< Remote(p.data) >>)
                        ELSE /\ Raise(<< >>)
                             /\ UNCHANGED << vesion_pkg_received, setup_failed,
                                             packet_counter, installed_bootloader,
                                             sent >>
                   ELSE setup_count(<< >>)
    /\ UNCHANGED << ser, total_len, tries, curr_frame, resend_count,
                    done_sent, bl_done, bl_failed, attempt_base, triggers,
                    succeeded, nominal, upload_btn, codecVars >>


(***************************************************************************)
(* phase_bootload                                                           *)
(***************************************************************************)
\* phase_bootload up to the while loop: the image file is read and the
\* counters are initialised
bootload_begin_mut ==
    /\ pc = "bootload_begin"
    /\ pc' = "bootload_read"
    /\ curr_frame' = 1
    /\ resend_count' = 0
    /\ bl_done' = FALSE
    /\ bl_failed' = FALSE
    /\ done_sent' = FALSE
    /\ packet_counter' = 0        \* the locals of phase_setup are gone
    /\ setup_reads' = 0
    /\ nominal' = TRUE
    /\ out' = << Local("Phase: Bootload"), Local("Sending bytes in frames") >>
    /\ UNCHANGED << ser, rx, total_len, tries, installed_bootloader,
                    packet, rd, vesion_pkg_received, setup_failed,
                    sent, attempt_base, triggers,
                    all_timed_out, raised, succeeded, upload_btn, codecVars >>

bootload_begin ==
    /\ pc = "bootload_begin"
    /\ pc' = "bootload_read"
    /\ curr_frame' = 0
    /\ resend_count' = 0
    /\ bl_done' = FALSE
    /\ bl_failed' = FALSE
    /\ done_sent' = FALSE
    /\ packet_counter' = 0        \* the locals of phase_setup are gone
    /\ setup_reads' = 0
    /\ nominal' = TRUE
    /\ out' = << Local("Phase: Bootload"), Local("Sending bytes in frames") >>
    /\ UNCHANGED << ser, rx, total_len, tries, installed_bootloader,
                    packet, rd, vesion_pkg_received, setup_failed,
                    sent, attempt_base, triggers,
                    all_timed_out, raised, succeeded, upload_btn, codecVars >>

\* the while loop ends with bl_failed = failed
bootload_exit_mut(failed, events) ==
    /\ bl_failed' = (failed /\ packet'.cmd \in {0, SVL_CMD_NEXT, SVL_CMD_RETRY})
    /\ bl_done' = TRUE
    /\ pc' = "bootload_report"
    /\ out' = events
    /\ UNCHANGED << sent, done_sent, raised >>

bootload_exit(failed, events) ==
    /\ bl_failed' = failed
    /\ bl_done' = TRUE
    /\ pc' = "bootload_report"
    /\ out' = events
    /\ UNCHANGED << sent, done_sent, raised >>

\* elif( packet['cmd'] == SVL_CMD_DONE ): bl_done = True; break
device_done_mut ==
    /\ bl_done' = TRUE
    /\ bl_failed' = ~done_sent
    /\ pc' = "bootload_report"
    /\ out' = << >>
    /\ UNCHANGED << curr_frame, resend_count, done_sent, sent, raised >>

device_done ==
    /\ bl_done' = TRUE
    /\ pc' = "bootload_report"
    /\ out' = << >>
    /\ UNCHANGED << curr_frame, resend_count, done_sent, bl_failed, sent, raised >>

\* elif( not done_sent ): the branch that handles errors, NEXT and RETRY
transfer_open_mut(ds) == TRUE

transfer_open(ds) == ~ds

\* the resend budget is used up
resend_exhausted_mut(n) == n > resend_max

resend_exhausted(n) == n >= resend_max

\* if( curr_frame <= total_frames ): a frame is sent, not the close-out DONE
frames_left_mut(f) == f < total_frames

frames_left(f) == f <= total_frames

\* curr_frame += 1
next_frame_mut(f) == f + 2

next_frame(f) == f + 1

\* the frame or the close-out DONE sent after a NEXT or a RETRY, with the
\* frame counter at f
bootload_send_mut(f, events) ==
    /\ pc' = "bootload_read"
    /\ UNCHANGED << bl_done, bl_failed, raised >>
    /\ IF frames_left(f)
       THEN /\ sent' = sent \o << Sent(SVL_CMD_FRAME, f, frame_data(f)), Sent(SVL_CMD_FRAME, f, frame_data(f)) >>
            /\ out' = events \o << Local("Sending frame") >>
            /\ UNCHANGED done_sent
       ELSE /\ sent' = Append(sent, Sent(SVL_CMD_DONE, f, empty_data))
            /\ out' = events
            /\ done_sent' = TRUE

bootload_send(f, events) ==
    /\ pc' = "bootload_read"
    /\ UNCHANGED << bl_done, bl_failed, raised >>
    /\ IF frames_left(f)
       THEN /\ sent' = Append(sent, Sent(SVL_CMD_FRAME, f, frame_data(f)))
            /\ out' = events \o << Local("Sending frame") >>
            /\ UNCHANGED done_sent
       ELSE /\ sent' = Append(sent, Sent(SVL_CMD_DONE, f, empty_data))
            /\ out' = events
            /\ done_sent' = TRUE

\* one iteration of the while loop of phase_bootload
bootload_loop ==
    /\ pc = "bootload_read"
    /\ IF ser # "open"
       THEN /\ Raise(<< >>)
            /\ UNCHANGED << rx, packet, rd, all_timed_out, curr_frame,
                            resend_count, done_sent, bl_done, bl_failed, sent,
                            nominal >>
       ELSE LET w == wait_for_packet(rx)
                p == w.packet
            IN  /\ rx' = w.rest
                /\ packet' = p
                /\ rd' = [hdr |-> w.hdr, pay |-> w.pay]
                /\ all_timed_out' = (all_timed_out /\ w.hdr < 2)
                /\ nominal' = (/\ nominal
                               /\ p.timeout = 0
                               /\ p.crc = 0
                               /\ \/ p.cmd = SVL_CMD_DONE
                                  \/ (p.cmd = SVL_CMD_NEXT /\ ~done_sent))
                /\ IF p.cmd = SVL_CMD_MSG
                   THEN IF ascii_ok(p.data)
                        THEN /\ pc' = "bootload_read"
                             /\ out' = << Remote(p.data) >>
                             /\ UNCHANGED << curr_frame, resend_count, done_sent,
                                             bl_done, bl_failed, sent, raised >>
                        ELSE /\ Raise(<< >>)
                             /\ UNCHANGED << curr_frame, resend_count, done_sent,
                                             bl_done, bl_failed, sent >>
                   ELSE IF p.cmd = SVL_CMD_DONE
                   THEN device_done
                   ELSE IF transfer_open(done_sent)
                   THEN IF p.timeout # 0 \/ p.crc # 0
                        THEN /\ bootload_exit(TRUE, << Local("Error receiving packet") >>)
                             /\ UNCHANGED << curr_frame, resend_count >>
                        ELSE IF p.cmd = SVL_CMD_NEXT
                        THEN /\ curr_frame' = next_frame(curr_frame)
                             /\ resend_count' = 0
                             /\ bootload_send(next_frame(curr_frame), << Local("Got frame request") >>)
                        ELSE IF p.cmd = SVL_CMD_RETRY
                        THEN /\ resend_count' = resend_count + 1
                             /\ UNCHANGED curr_frame
                             /\ IF resend_exhausted(resend_count + 1)
                                THEN bootload_exit(TRUE, << Local("Retrying...") >>)
                                ELSE bootload_send(curr_frame, << Local("Retrying...") >>)
                        ELSE /\ bootload_exit(TRUE, << Local("Unknown error") >>)
                             /\ UNCHANGED << curr_frame, resend_count >>
                   ELSE /\ pc' = "bootload_read"
                        /\ out' = << >>
                        /\ UNCHANGED << curr_frame, resend_count, done_sent,
                                        bl_done, bl_failed, sent, raised >>
    /\ UNCHANGED << ser, total_len, tries, installed_bootloader,
                    vesion_pkg_received, setup_failed, packet_counter,
                    attempt_base, setup_reads, triggers, succeeded, upload_btn, codecVars >>

\* Uploader.__init__ sets ser, fileLocation and installed_bootloader only:
\* the object has no baudRate attribute
uploader_has_baudRate == FALSE

\* the report after the while loop and the return to upload_main
bootload_report ==
    /\ pc = "bootload_report"
    /\ IF ~bl_failed
       THEN /\ out' = << Local("Upload complete!"), Local("Nominal bootload bytes/sec") >>
            /\ succeeded' = TRUE
            /\ pc' = after_attempt(FALSE, tries)
            /\ UNCHANGED raised
       ELSE IF uploader_has_baudRate
       THEN /\ out' = << Local("Upload failed!") >>
            /\ pc' = after_attempt(TRUE, tries)
            /\ UNCHANGED << raised, succeeded >>
       ELSE /\ Raise(<< Local("Upload failed!") >>)
            /\ UNCHANGED succeeded
    /\ UNCHANGED << ser, rx, total_len, tries, installed_bootloader,
                    packet, rd, phaseVars, sent, attempt_base, setup_reads,
                    triggers, all_timed_out, nominal, upload_btn, codecVars >>

(***************************************************************************)
(* The environment: the device and the main window                          *)
(***************************************************************************)
running == pc \in {"setup_settle", "setup_baud", "setup_read", "bootload_begin",
                   "bootload_read", "bootload_report"}

\* bytes from the device arrive in the input buffer
device_send ==
    /\ running
    /\ ser = "open"
    /\ rx = <<>>
    /\ \E r \in DeviceResponses : rx' = r
    /\ UNCHANGED << pc, sessionVars, packet, rd, upload_btn, codecVars >>

\* MainWindow.on_connect_btn_pressed on the port object the session holds
on_connect_btn_pressed ==
    /\ \/ running /\ ser \in {"open", "closed"}
       \/ pc = "finished" /\ upload_btn
    /\ ser' = (IF ser = "open" THEN "closed" ELSE "open")
    /\ rx' = <<>>
    /\ UNCHANGED << pc, total_len, tries, installed_bootloader, packet,
                    rd, phaseVars, sent, attempt_base, out, setup_reads,
                    triggers, all_timed_out, raised, succeeded, nominal, upload_btn, codecVars >>

\* MainWindow.done, the slot of the finished signal
done ==
    /\ pc = "finished"
    /\ ~upload_btn
    /\ upload_btn' = TRUE
    /\ UNCHANGED << pc, sessionVars, rx, packet, rd, codecVars >>

\* MainWindow.on_upload_btn_pressed with the port listed and the file
\* found: a new Uploader on the port object of the main window, its thread
\* started, the buttons disabled
on_upload_btn_pressed_mut ==
    /\ upload_btn
    /\ upload_btn' = TRUE
    /\ pc' = "start"
    /\ total_len' \in ImageLens
    /\ tries' = 0
    /\ installed_bootloader' = -1
    /\ packet' = packet_default
    /\ rd' = no_read
    /\ vesion_pkg_received' = FALSE
    /\ setup_failed' = FALSE
    /\ packet_counter' = 0
    /\ curr_frame' = 0
    /\ resend_count' = 0
    /\ done_sent' = FALSE
    /\ bl_done' = FALSE
    /\ bl_failed' = FALSE
    /\ sent' = <<>>
    /\ attempt_base' = 0
    /\ out' = <<>>
    /\ setup_reads' = 0
    /\ triggers' = 0
    /\ all_timed_out' = TRUE
    /\ raised' = FALSE
    /\ succeeded' = FALSE
    /\ nominal' = FALSE
    /\ UNCHANGED << ser, rx, codecVars >>

on_upload_btn_pressed ==
    /\ upload_btn
    /\ upload_btn' = FALSE
    /\ pc' = "start"
    /\ total_len' \in ImageLens
    /\ tries' = 0
    /\ installed_bootloader' = -1
    /\ packet' = packet_default
    /\ rd' = no_read
    /\ vesion_pkg_received' = FALSE
    /\ setup_failed' = FALSE
    /\ packet_counter' = 0
    /\ curr_frame' = 0
    /\ resend_count' = 0
    /\ done_sent' = FALSE
    /\ bl_done' = FALSE
    /\ bl_failed' = FALSE
    /\ sent' = <<>>
    /\ attempt_base' = 0
    /\ out' = <<>>
    /\ setup_reads' = 0
    /\ triggers' = 0
    /\ all_timed_out' = TRUE
    /\ raised' = FALSE
    /\ succeeded' = FALSE
    /\ nominal' = FALSE
    /\ UNCHANGED << ser, rx, codecVars >>

Worker ==
    \/ upload_main
    \/ setup_begin
    \/ setup_settle
    \/ setup_baud
    \/ setup_loop
    \/ bootload_begin
    \/ bootload_loop
    \/ bootload_report
    \/ post_session
    \/ except_clause

Next ==
    \/ Worker
    \/ device_send
    \/ on_connect_btn_pressed
    \/ done
    \/ on_upload_btn_pressed

Spec == Init /\ [][Next]_vars

\* A session on a port that is open and stays open, with the smallest
\* image: the device is the only source of faults, and the worker thread
\* keeps running.
LiveInit == Init /\ ser = "open" /\ total_len = 0

LiveNext ==
    \/ Worker
    \/ device_send

LiveSpec == LiveInit /\ [][LiveNext]_vars /\ WF_vars(Worker)

(***************************************************************************)
(* The codec on its own: send_packet writes, the link delivers the bytes   *)
(* (or a prefix of them, or unrelated bytes), wait_for_packet decodes.      *)
(***************************************************************************)
DataBytes == {0, 165, 255}

DataSeqs == UNION { [1..k -> DataBytes] : k \in 0..MaxDataLen }

RawInputs == { <<>>, <<0>>, <<0, 0>>, <<0, 0, 7>>, <<0, 3, 7, 0>>, <<0, 3, 6, 0, 0>>,
               <<0, 1, 7>> }

sessionIdle == << ser, total_len, tries, installed_bootloader,
                  phaseVars, sent, attempt_base, out, setup_reads, triggers,
                  all_timed_out, raised, succeeded, nominal, upload_btn >>

CodecInit ==
    /\ pc = "c_start"
    /\ ser = "open"
    /\ rx = <<>>
    /\ total_len = 0
    /\ tries = 0
    /\ installed_bootloader = -1
    /\ packet = packet_default
    /\ rd = no_read
    /\ vesion_pkg_received = FALSE
    /\ setup_failed = FALSE
    /\ packet_counter = 0
    /\ curr_frame = 0
    /\ resend_count = 0
    /\ done_sent = FALSE
    /\ bl_done = FALSE
    /\ bl_failed = FALSE
    /\ sent = <<>>
    /\ attempt_base = 0
    /\ out = <<>>
    /\ setup_reads = 0
    /\ triggers = 0
    /\ all_timed_out = TRUE
    /\ raised = FALSE
    /\ succeeded = FALSE
    /\ nominal = FALSE
    /\ upload_btn = FALSE
    /\ arg \in [cmd : 0..255, data : DataSeqs]
    /\ tx = <<>>
    /\ full = FALSE
    /\ crcres = no_crc

\* send_packet(ser, arg.cmd, arg.data)
codec_send ==
    /\ pc = "c_start"
    /\ tx' = send_packet(arg.cmd, arg.data)
    /\ pc' = "c_sent"
    /\ UNCHANGED << rx, packet, rd, arg, full, crcres, sessionIdle >>

\* the link carries the first k of the bytes written
codec_deliver ==
    /\ pc = "c_sent"
    /\ \E k \in 0..Len(Flat(tx)) :
          /\ rx' = SubSeq(Flat(tx), 1, k)
          /\ full' = (k = Len(Flat(tx)))
    /\ pc' = "c_link"
    /\ UNCHANGED << packet, rd, arg, tx, crcres, sessionIdle >>

\* bytes that no send_packet produced arrive
codec_inject ==
    /\ pc = "c_start"
    /\ \E r \in RawInputs : rx' = r
    /\ pc' = "c_link"
    /\ UNCHANGED << packet, rd, arg, tx, full, crcres, sessionIdle >>

\* wait_for_packet(ser)
codec_receive ==
    /\ pc = "c_link"
    /\ LET w == wait_for_packet(rx)
       IN  /\ packet' = w.packet
           /\ rd' = [hdr |-> w.hdr, pay |-> w.pay]
           /\ rx' = w.rest
    /\ pc' = "c_done"
    /\ UNCHANGED << arg, tx, full, crcres, sessionIdle >>

\* get_crc16(p), then get_crc16 of p followed by that CRC, big-endian
codec_crc ==
    /\ pc = "c_start"
    /\ \E p \in {arg.data, to_bytes1(arg.cmd) \o arg.data} :
          LET crc == get_crc16(p)
          IN  crcres' = [p |-> p, crc |-> crc,
                         residue |-> get_crc16(p \o to_bytes2(crc))]
    /\ pc' = "c_crc"
    /\ UNCHANGED << rx, packet, rd, arg, tx, full, sessionIdle >>

CodecNext ==
    \/ codec_send
    \/ codec_deliver
    \/ codec_inject
    \/ codec_receive
    \/ codec_crc

CodecSpec == CodecInit /\ [][CodecNext]_vars

(***************************************************************************)
(* Properties                                                               *)
(***************************************************************************)

\* C1 (termination on a silent link): if from some point on the input
\* buffer stays empty, so that every read times out, upload_main eventually
\* emits finished.
C1_SilentLinkTerminates == (<>[](rx = <<>>)) => <>(pc = "finished")

\* C2 (whole-sequence retry): when phase_bootload has ended with bl_failed
\* set, or phase_setup has just set setup_failed, and fewer than num_tries
\* attempts have been started, the next move of upload_main is the start of
\* another attempt.
C2_RetryAfterFailure ==
    [][ /\ (pc = "bootload_report" /\ bl_failed /\ tries < num_tries /\ pc' # pc)
            => pc' = "setup_begin"
        /\ (~setup_failed /\ setup_failed' /\ tries < num_tries)
            => pc' = "setup_begin" ]_vars

\* C3 (Scenario B): as long as every length read has timed out and no
\* exception was raised, nothing has been sent with send_packet, Bootload
\* has not been entered and each attempt has made at most one
\* wait_for_packet call; an attempt that is over made exactly one and failed
\* on it, and the session ends after exactly num_tries = 3 attempts.
C3_ScenarioB ==
    (all_timed_out /\ ~raised) =>
        /\ sent = <<>>
        /\ setup_reads <= 1
        /\ pc \notin {"bootload_begin", "bootload_read", "bootload_report"}
        /\ (pc = "setup_begin" /\ tries >= 1) => (setup_reads = 1 /\ setup_failed)
        /\ pc \in {"post", "finished"} => (tries = 3 /\ setup_reads = 1 /\ setup_failed)

C3_Witness == pc = "finished" /\ all_timed_out /\ ~raised /\ tries = 3

\* C4 (attempt bound): phase_setup is started at most 3 times in a run, and
\* once phase_bootload has returned success no further attempt is started
\* in that run (a step to "start" is a new run of upload_main).
C4_AttemptBound ==
    /\ [](tries <= 3)
    /\ [][(succeeded /\ pc' # "start") => tries' = tries]_vars

C4_Witness == pc = "finished" /\ succeeded /\ tries = 3

\* C5 (codec round trip): when the link delivers every byte written by
\* send_packet(cmd, data), wait_for_packet returns timeout = 0, crc = 0, the
\* original cmd and the original data.
C5_RoundTrip ==
    (pc = "c_done" /\ full) =>
        /\ packet.timeout = 0
        /\ packet.crc = 0
        /\ packet.cmd = arg.cmd
        /\ packet.data = arg.data

C5_Witness == pc = "c_done" /\ full /\ arg.cmd = 255 /\ Len(arg.data) = 2

\* C6 (CRC residue): get_crc16 of a byte sequence followed by the two
\* big-endian bytes of its get_crc16 is 0.
C6_Residue == pc = "c_crc" => crcres.residue = 0

C6_Witness == pc = "c_crc" /\ Len(crcres.p) = 3 /\ crcres.crc > 255

\* C7 (zero-length packet): a wait_for_packet call whose length read
\* returned the two bytes 0, 0 yields a packet with neither timeout nor crc
\* set, and the phase that made the call has not failed.
C7_ZeroLengthBenign ==
    (pc \in {"setup_begin", "setup_read", "post", "bootload_read", "bootload_report"}
        /\ rd.hdr = 2 /\ packet.len = 0) =>
        /\ packet.timeout = 0
        /\ packet.crc = 0
        /\ ~setup_failed
        /\ ~bl_failed

\* C8 (short reads): when the length read returned fewer than 2 bytes, or
\* the payload read returned fewer bytes than the declared length L > 0,
\* the packet has timeout set and cmd and data keep their initial values.
C8_ShortReads ==
    (pc = "c_done" /\ (rd.hdr < 2 \/ (packet.len > 0 /\ rd.pay >= 0 /\ rd.pay < packet.len))) =>
        /\ packet.timeout = 1
        /\ packet.cmd = 0
        /\ packet.data = data_unset

C8_Witness == pc = "c_done" /\ rd.hdr = 2 /\ rd.pay > 0 /\ rd.pay < packet.len

\* C9 (wire format): send_packet makes exactly two writes: the big-endian
\* two bytes of 3 + len(data), then the command byte, the data and the
\* big-endian two bytes of the CRC of command and data.
C9_WireFormat ==
    pc = "c_sent" =>
        LET crc == get_crc16(<<arg.cmd>> \o arg.data)
        IN  /\ Len(tx) = 2
            /\ tx[1] = << (3 + Len(arg.data)) \div 256, (3 + Len(arg.data)) % 256 >>
            /\ tx[2] = <<arg.cmd>> \o arg.data \o << crc \div 256, crc % 256 >>

C9_Witness == pc = "c_sent" /\ arg.cmd = SVL_CMD_FRAME /\ Len(arg.data) = 2

RECURSIVE Pow256(_)
Pow256(n) == IF n = 0 THEN 1 ELSE 256 * Pow256(n - 1)

RECURSIVE WeightedSum(_, _)
WeightedSum(b, i) ==
    IF i > Len(b) THEN 0
    ELSE (b[i] * Pow256(Len(b) - i)) + WeightedSum(b, i + 1)

\* C10 (Setup success): a setup iteration that decodes a VER packet with
\* timeout = 0 and crc = 0 sets installed_bootloader to the big-endian
\* unsigned value of the data, makes exactly one send_packet call, BL with
\* empty data, and leaves phase_setup with success, having read no other
\* packet.
C10_SetupSuccess ==
    [][ (/\ pc = "setup_read"
         /\ setup_reads' = setup_reads + 1
         /\ packet'.timeout = 0
         /\ packet'.crc = 0
         /\ packet'.cmd = SVL_CMD_VER) =>
        (/\ installed_bootloader' = WeightedSum(packet'.data, 1)
         /\ sent' = Append(sent, [cmd |-> SVL_CMD_BL, frame |-> 0, lo |-> 0, hi |-> 0])
         /\ vesion_pkg_received'
         /\ ~setup_failed'
         /\ pc' = "bootload_begin") ]_vars

C10_Witness ==
    /\ pc = "bootload_begin"
    /\ vesion_pkg_received
    /\ installed_bootloader = 256
    /\ Len(sent) = attempt_base + 1
    /\ sent[Len(sent)].cmd = SVL_CMD_BL


\* a step of phase_setup that made a wait_for_packet call
SetupDecoded == pc = "setup_read" /\ setup_reads' = setup_reads + 1

\* a step of phase_bootload that made a wait_for_packet call: the port is
\* open and stays so, and the input buffer does not grow
BootloadDecoded ==
    /\ pc = "bootload_read"
    /\ ser = "open"
    /\ ser' = ser
    /\ Len(rx') <= Len(rx)

HasRemote(events) == \E i \in 1..Len(events) : events[i].ch = "addMessageRemote"

\* C11 (Setup abort): a setup iteration whose packet has timeout set or a
\* nonzero crc ends phase_setup as failed in that same iteration, sends
\* nothing and leaves installed_bootloader as it was, whatever the command
\* byte of the packet.
C11_SetupAbort ==
    [][ (SetupDecoded /\ (packet'.timeout # 0 \/ packet'.crc # 0)) =>
        (/\ setup_failed'
         /\ ~vesion_pkg_received'
         /\ pc' \in {"setup_begin", "post"}
         /\ sent' = sent
         /\ installed_bootloader' = installed_bootloader) ]_vars

C11_Witness ==
    /\ pc = "setup_begin"
    /\ setup_failed
    /\ packet.cmd = SVL_CMD_VER
    /\ packet.timeout = 0
    /\ packet.crc # 0
    /\ installed_bootloader = -1

\* C12 (Setup packet bound): phase_setup has succeeded only if the VER packet
\* was among the first 10 packets of the attempt, and the loop goes on
\* reading only while fewer than 10 packets have been received.
C12_VersionWithinTen ==
    /\ (pc = "bootload_begin" /\ vesion_pkg_received) => setup_reads <= 10
    /\ pc = "setup_read" => setup_reads < 10

\* C13 as claimed (unexpected command in Setup): a well-formed packet whose
\* command is neither VER nor MSG fails the attempt.
C13_UnexpectedFails ==
    [][ (/\ SetupDecoded
         /\ packet'.timeout = 0
         /\ packet'.crc = 0
         /\ packet'.cmd \notin {SVL_CMD_VER, SVL_CMD_MSG}) => setup_failed' ]_vars

\* C13 as amended: a well-formed packet whose command is neither VER nor MSG
\* is counted as a non-version packet and otherwise ignored: nothing is sent
\* or logged remotely, installed_bootloader is unchanged, and the attempt
\* fails exactly when more than 10 non-version packets have been counted.
C13_UnexpectedCounted ==
    [][ (/\ SetupDecoded
         /\ packet'.timeout = 0
         /\ packet'.crc = 0
         /\ packet'.cmd \notin {SVL_CMD_VER, SVL_CMD_MSG}) =>
        (/\ packet_counter' = packet_counter + 1
         /\ setup_failed' <=> (packet_counter + 1 > 10)
         /\ ~setup_failed' => pc' = "setup_read"
         /\ sent' = sent
         /\ ~HasRemote(out')
         /\ installed_bootloader' = installed_bootloader) ]_vars

C13_Witness ==
    /\ setup_failed
    /\ packet_counter = 11
    /\ packet.cmd = SVL_CMD_NEXT
    /\ packet.timeout = 0
    /\ packet.crc = 0


\* the send_packet calls of the current attempt
AttemptSent == SubSeq(sent, attempt_base + 1, Len(sent))

\* ceil(n / 2048)
NFrames(n) == CHOOSE k \in 0..(n + 1) : k * 2048 >= n /\ (k = 0 \/ (k - 1) * 2048 < n)

\* C14 (nominal transfer): when Bootload has received only well-formed NEXT
\* packets, ceil(N/2048)+1 of them, and then a well-formed DONE, the host
\* has sent, after BL, FRAME packets for frames 1..ceil(N/2048) in order,
\* frame f carrying image bytes [(f-1)*2048, min(f*2048, N)), then one DONE
\* with empty data and nothing else, and the phase has not failed.
C14_NominalTransfer ==
    (/\ pc = "bootload_report"
     /\ nominal
     /\ packet.cmd = SVL_CMD_DONE
     /\ curr_frame = NFrames(total_len) + 1) =>
        LET log == AttemptSent
            n == NFrames(total_len)
        IN  /\ ~bl_failed
            /\ Len(log) = n + 2
            /\ log[1].cmd = SVL_CMD_BL
            /\ \A f \in 1..n :
                  /\ log[f + 1].cmd = SVL_CMD_FRAME
                  /\ log[f + 1].frame = f
                  /\ log[f + 1].lo = (f - 1) * 2048
                  /\ log[f + 1].hi = Min(f * 2048, total_len)
            /\ log[n + 2].cmd = SVL_CMD_DONE
            /\ log[n + 2].lo = 0
            /\ log[n + 2].hi = 0

C14_Witness ==
    /\ pc = "bootload_report"
    /\ nominal
    /\ packet.cmd = SVL_CMD_DONE
    /\ curr_frame = NFrames(total_len) + 1
    /\ total_len = ((MaxFrames - 1) * 2048) + 1

\* how many times frame f has been sent in the current attempt
TimesSent(f) ==
    Cardinality({ i \in (attempt_base + 1)..Len(sent) :
                    sent[i].cmd = SVL_CMD_FRAME /\ sent[i].frame = f })

\* C15 (retry budget): a well-formed RETRY that arrives when three RETRY
\* packets have been counted since the last NEXT fails the transfer and no
\* packet is sent in response; and no frame is sent more than 4 times in an
\* attempt.
C15_RetryBudget ==
    /\ [][ (/\ BootloadDecoded
            /\ Len(rx') < Len(rx)
            /\ ~done_sent
            /\ resend_count = 3
            /\ packet'.cmd = SVL_CMD_RETRY
            /\ packet'.timeout = 0
            /\ packet'.crc = 0) =>
           (/\ bl_failed'
            /\ pc' = "bootload_report"
            /\ sent' = sent) ]_vars
    /\ [](\A i \in 1..Len(sent) : TimesSent(sent[i].frame) <= 4)

C15_Witness ==
    /\ pc = "bootload_report"
    /\ bl_failed
    /\ resend_count = 4
    /\ packet.cmd = SVL_CMD_RETRY
    /\ TimesSent(1) = 4


\* the FRAME packets of the current attempt, in the order they were sent
AttemptFrames == SelectSeq(AttemptSent, LAMBDA e : e.cmd = SVL_CMD_FRAME)

\* C16 (RETRY holds the frame index): when a well-formed RETRY is accepted
\* (host DONE not yet sent, budget not exhausted), the host has already sent
\* a FRAME packet in this attempt and the packet it sends in response is
\* that most recent FRAME packet again: same index, same bytes.
C16_RetryResends ==
    [][ (/\ BootloadDecoded
         /\ ~done_sent
         /\ resend_count < 3
         /\ packet'.cmd = SVL_CMD_RETRY
         /\ packet'.timeout = 0
         /\ packet'.crc = 0) =>
        (/\ Len(AttemptFrames) > 0
         /\ sent' = Append(sent, AttemptFrames[Len(AttemptFrames)])) ]_vars

\* C17 (frame order): within one attempt the first FRAME packet sent is
\* frame 1, and every later FRAME packet has the index of the previous one
\* or that index plus 1.
C17_FrameOrder ==
    LET fr == AttemptFrames
    IN  /\ Len(fr) > 0 => fr[1].frame = 1
        /\ \A i \in 2..Len(fr) : fr[i].frame \in {fr[i - 1].frame, fr[i - 1].frame + 1}

\* C18 (MSG is transparent in Bootload): handling a well-formed MSG packet
\* in the Bootload phase forwards its data as one remote log line, leaves
\* curr_frame, resend_count and done_sent unchanged, sends nothing and does
\* not end the phase.
C18_MsgTransparent ==
    [][ (/\ BootloadDecoded
         /\ packet'.cmd = SVL_CMD_MSG
         /\ packet'.timeout = 0
         /\ packet'.crc = 0) =>
        (/\ out' = << Remote(packet'.data) >>
         /\ curr_frame' = curr_frame
         /\ resend_count' = resend_count
         /\ done_sent' = done_sent
         /\ sent' = sent
         /\ pc' = "bootload_read") ]_vars

\* C19 (fatal receive errors in Bootload): while the host has not sent its
\* DONE, every decoded packet that is timed out or has nonzero CRC fails
\* the transfer, whatever its command byte.
C19_BootloadFatal ==
    [][ (/\ BootloadDecoded
         /\ ~done_sent
         /\ (packet'.timeout # 0 \/ packet'.crc # 0)) =>
        (/\ bl_failed'
         /\ pc' = "bootload_report") ]_vars

\* C20 (validity before command): in both phases a packet that is timed out
\* or has nonzero CRC residue is never acted on: no remote log line is
\* forwarded, nothing is sent, no counter of the transfer or version moves,
\* and the phase does not end with success.
C20_ValidityFirst ==
    [][ (/\ SetupDecoded \/ BootloadDecoded
         /\ (packet'.timeout # 0 \/ packet'.crc # 0)) =>
        (/\ ~HasRemote(out')
         /\ sent' = sent
         /\ curr_frame' = curr_frame
         /\ resend_count' = resend_count
         /\ installed_bootloader' = installed_bootloader
         /\ ~(pc' = "bootload_report" /\ ~bl_failed')) ]_vars


\* the packet just decoded is well-formed: not timed out, CRC residue 0
WellFormed(p) == p.timeout = 0 /\ p.crc = 0

\* C21 (device DONE ends Bootload): a well-formed DONE packet received in
\* Bootload ends the loop without failure whatever curr_frame, resend_count
\* and done_sent are, nothing is sent in response, and the phase then
\* reports success to upload_main.
C21_DeviceDone ==
    /\ [][ (/\ BootloadDecoded
            /\ packet'.cmd = SVL_CMD_DONE
            /\ WellFormed(packet')) =>
           (/\ pc' = "bootload_report"
            /\ bl_done'
            /\ ~bl_failed'
            /\ sent' = sent
            /\ curr_frame' = curr_frame
            /\ resend_count' = resend_count
            /\ done_sent' = done_sent) ]_vars
    /\ [][ (pc = "bootload_report" /\ ~bl_failed /\ pc' # pc) =>
           (/\ succeeded'
            /\ pc' = "post"
            /\ out'[1] = Local("Upload complete!")
            /\ sent' = sent) ]_vars

C21_Witness ==
    /\ pc = "bootload_report"
    /\ packet.cmd = SVL_CMD_DONE
    /\ WellFormed(packet)
    /\ ~bl_failed
    /\ ~done_sent
    /\ curr_frame = 1
    /\ resend_count = 1

C23_UnknownCommand ==
    [][ (/\ BootloadDecoded
         /\ ~done_sent
         /\ WellFormed(packet')
         /\ packet'.cmd \notin {SVL_CMD_MSG, SVL_CMD_DONE, SVL_CMD_NEXT, SVL_CMD_RETRY}) =>
        (/\ bl_failed'
         /\ pc' = "bootload_report"
         /\ sent' = sent
         /\ curr_frame' = curr_frame
         /\ out' = << Local("Unknown error") >>) ]_vars

C23_Witness ==
    /\ pc = "bootload_report"
    /\ bl_failed
    /\ ~done_sent
    /\ packet.cmd = SVL_CMD_BL
    /\ WellFormed(packet)


\* C24 (exclusive transport ownership): while the session is running on the
\* worker thread, the state of the serial port object it holds is not
\* changed by a handler of the main window.
C24_ExclusiveTransport == [][ running => ser' = ser ]_vars

HasFinished(events) == \E i \in 1..Len(events) : events[i].ch = "finished"

HasLocal(events) == \E i \in 1..Len(events) : events[i].ch = "addMessage"

\* C25 (single terminal event): `finished` is emitted at most once, as the
\* last signal of upload_main, and after it the session emits nothing,
\* reads nothing and writes nothing (until the Upload button starts a new
\* session).
C25_SingleTerminal ==
    /\ [](HasFinished(out) =>
            /\ pc = "finished"
            /\ out[Len(out)] = Finished
            /\ \A i \in 1..(Len(out) - 1) : out[i].ch # "finished")
    /\ [][ (pc = "finished" /\ ~(upload_btn /\ pc' = "start")) =>
            /\ UNCHANGED << pc, out, sent, triggers, packet, rd, tries,
                            setup_reads >>
            /\ ser' = ser => rx' = rx ]_vars

C25_Witness ==
    /\ pc = "finished"
    /\ succeeded
    /\ out = << Finished >>

\* C26 (no silent failure): a Setup failure emits a local log line in the
\* step that detects it; a Bootload failure leads to the report, which
\* starts with 'Upload failed!'; an exception leads to the except clause,
\* which logs 'Could not communicate with board!' before `finished`.
C26_NoSilentFailure ==
    /\ [][ (setup_failed' /\ ~setup_failed) => HasLocal(out') ]_vars
    /\ [][ (bl_failed' /\ ~bl_failed) => pc' = "bootload_report" ]_vars
    /\ [][ (raised' /\ ~raised) => pc' = "except" ]_vars
    /\ [][ (pc = "bootload_report" /\ bl_failed /\ pc' # pc) =>
           (Len(out') > 0 /\ out'[1] = Local("Upload failed!")) ]_vars
    /\ [][ (pc = "except" /\ pc' # pc) =>
           (HasLocal(out') /\ out'[Len(out')] = Finished) ]_vars

C26_Witness ==
    /\ pc = "finished"
    /\ ~succeeded
    /\ ~raised
    /\ setup_failed
    /\ tries = num_tries

\* C27 (failure report of Bootload): when the Bootload phase has failed, the
\* report emits 'Upload failed!', after it at most the baud rate hint, and
\* phase_bootload returns the failure to upload_main.
C27_FailureReport ==
    [][ (pc = "bootload_report" /\ bl_failed /\ pc' # pc) =>
        (/\ ~raised'
         /\ pc' \in {"setup_begin", "post"}
         /\ Len(out') \in {1, 2}
         /\ out'[1] = Local("Upload failed!")
         /\ Len(out') = 2 => out'[2] = Local("Please try a slower Baud Rate")) ]_vars

\* C28 (post-session advisory): whenever upload_main emits `finished` with
\* installed_bootloader in 0..BOOTLOADER_VERSION-1, the out-of-date advisory
\* was emitted just before it.
C28_Advisory ==
    [][ (/\ pc # "finished"
         /\ pc' = "finished"
         /\ installed_bootloader \in 0..(BOOTLOADER_VERSION - 1)) =>
        (\E i \in 1..(Len(out') - 1) :
            out'[i] = Local("Your bootloader is out of date")) ]_vars

\* the positions of the worker at which the next statement is a transport
\* operation
TransportPc == {"setup_begin", "setup_settle", "setup_baud", "setup_read",
                "bootload_read"}

\* C29 (transport unavailable or abandoned): a transport operation on a
\* missing or closed port takes upload_main to its except clause with
\* nothing sent; the except clause logs the failure and emits `finished`,
\* with no transport operation and no further attempt.
C29_TransportRaises ==
    /\ [][ (pc \in TransportPc /\ ser # "open" /\ ser' = ser /\ pc' # pc) =>
           (/\ pc' = "except"
            /\ raised'
            /\ sent' = sent
            /\ triggers' = triggers
            /\ rx' = rx) ]_vars
    /\ [][ (pc = "except" /\ pc' # pc) =>
           (/\ pc' = "finished"
            /\ out' = << Local("Could not communicate with board!"), Finished >>
            /\ sent' = sent
            /\ triggers' = triggers
            /\ tries' = tries
            /\ rx' = rx) ]_vars

C29_Witness ==
    /\ pc = "finished"
    /\ raised
    /\ ser = "closed"
    /\ ~bl_done
    /\ curr_frame = 1
    /\ packet.cmd = SVL_CMD_NEXT
    /\ tries = 1

\* C30 (no partial-phase resumption): every attempt starts phase_setup with
\* packet_counter = 0 and phase_bootload with curr_frame = 0,
\* resend_count = 0 and done_sent false, and the first FRAME packet sent in
\* any attempt is frame 1.
C30_FreshAttempt ==
    /\ [][ (pc = "setup_begin" /\ pc' # pc) => packet_counter' = 0 ]_vars
    /\ [][ (pc = "bootload_begin" /\ pc' # pc) =>
           (curr_frame' = 0 /\ resend_count' = 0 /\ ~done_sent') ]_vars
    /\ [](Len(AttemptFrames) > 0 => AttemptFrames[1].frame = 1)


\* C31 (request/response discipline): in the Bootload phase the log of sent
\* packets grows only in a step that decodes a packet, by exactly one
\* packet, a FRAME or a DONE, and the packet decoded in that step is a
\* well-formed NEXT or RETRY; no FRAME or DONE is sent in any other step.
C31_RequestResponse ==
    /\ [][ (sent' # sent /\ pc \in {"bootload_begin", "bootload_read", "bootload_report"}) =>
           (/\ BootloadDecoded
            /\ Len(sent') = Len(sent) + 1
            /\ SubSeq(sent', 1, Len(sent)) = sent
            /\ sent'[Len(sent')].cmd \in {SVL_CMD_FRAME, SVL_CMD_DONE}
            /\ WellFormed(packet')
            /\ packet'.cmd \in {SVL_CMD_NEXT, SVL_CMD_RETRY}) ]_vars
    /\ [][ (/\ sent' # sent
            /\ Len(sent') > 0
            /\ sent'[Len(sent')].cmd \in {SVL_CMD_FRAME, SVL_CMD_DONE}) =>
           pc = "bootload_read" ]_vars

C31_Witness ==
    /\ pc = "bootload_read"
    /\ packet.cmd = SVL_CMD_RETRY
    /\ resend_count = 2
    /\ curr_frame = 1
    /\ Len(AttemptSent) = 4
    /\ AttemptSent[4].cmd = SVL_CMD_FRAME

\* C32 (Setup step order): in every attempt the trigger string is written
\* first, then the input buffer is reset after the settle period, then the
\* training byte is written, and only then is the first packet read; the
\* reset leaves no byte that arrived before it in the buffer.
C32_SetupOrder ==
    /\ [][ (pc = "setup_begin" /\ pc' # pc) =>
           (/\ pc' \in {"setup_settle", "except"}
            /\ setup_reads' = 0
            /\ pc' = "setup_settle" =>
                  (triggers' = triggers + 1 /\ out'[Len(out')] = Local("Sent upgrade_cmd"))) ]_vars
    /\ [][ (pc = "setup_settle" /\ pc' # pc) =>
           (/\ pc' \in {"setup_baud", "except"}
            /\ setup_reads' = 0
            /\ triggers' = triggers
            /\ pc' = "setup_baud" =>
                  (rx' = << >> /\ out' = << Local("Cleared startup blip") >>)) ]_vars
    /\ [][ (pc = "setup_baud" /\ pc' # pc) =>
           (/\ pc' \in {"setup_read", "except"}
            /\ setup_reads' = 0
            /\ triggers' = triggers
            /\ rx' = rx
            /\ pc' = "setup_read" => out' = << Local("Sent baud_detect_byte") >>) ]_vars
    /\ [][ setup_reads' > setup_reads => pc = "setup_read" ]_vars

C32_Witness ==
    /\ pc = "setup_read"
    /\ setup_reads = 0
    /\ tries = 2
    /\ triggers = 2
    /\ rx # << >>

\* C33 (CRC range): for every byte sequence p given to get_crc16, every
\* table index computed on the way lies in 0..255, the result lies in
\* 0..65535, and the result for the empty sequence is 0.
C33_CrcRange ==
    pc = "c_crc" =>
        LET p == crcres.p
        IN  /\ crcres.crc \in 0..65535
            /\ p = << >> => crcres.crc = 0
            /\ \A k \in 1..Len(p) :
                  table_addr(get_crc16(SubSeq(p, 1, k - 1)), p[k]) \in 0..255

C33_Witness ==
    /\ pc = "c_crc"
    /\ Len(crcres.p) = MaxDataLen + 1
    /\ crcres.crc > 32767
    /\ table_addr(get_crc16(SubSeq(crcres.p, 1, MaxDataLen)), crcres.p[MaxDataLen + 1]) = 255


\* the host has sent every frame of the image and its close-out DONE in
\* the current attempt
TransferComplete ==
    /\ \A f \in 1..NFrames(total_len) : TimesSent(f) >= 1
    /\ \E i \in 1..Len(AttemptSent) : AttemptSent[i].cmd = SVL_CMD_DONE

\* C34 as stated (success implies a complete transfer): whenever
\* phase_bootload is about to report success, the host has sent a FRAME
\* packet for every frame 1..total_frames and its close-out DONE.
C34_SuccessComplete ==
    (pc = "bootload_report" /\ ~bl_failed) => TransferComplete

\* C34 as amended: phase_bootload reports success exactly when the last
\* packet decoded has command DONE; the transfer is complete if the host had
\* sent its own DONE by then.
C34_SuccessAfterDone ==
    (pc = "bootload_report" /\ ~bl_failed) =>
        /\ packet.cmd = SVL_CMD_DONE
        /\ done_sent =>
              /\ TransferComplete
              /\ AttemptSent[Len(AttemptSent)].cmd = SVL_CMD_DONE

C34_Witness ==
    /\ pc = "bootload_report"
    /\ ~bl_failed
    /\ done_sent
    /\ NFrames(total_len) = MaxFrames

\* C35 (frames are image slices): every FRAME packet sent carries a frame
\* index f in 1..total_frames and the non-empty image range
\* [(f-1)*2048, min(f*2048, N)).
C35_FramesAreSlices ==
    \A i \in 1..Len(sent) :
        sent[i].cmd = SVL_CMD_FRAME =>
            /\ sent[i].frame \in 1..NFrames(total_len)
            /\ sent[i].lo < sent[i].hi
            /\ sent[i].lo = (sent[i].frame - 1) * 2048
            /\ sent[i].hi = Min(sent[i].frame * 2048, total_len)

\* C36 (close-out DONE): the host sends DONE only as the single response to
\* a well-formed NEXT received when curr_frame equals total_frames, and a
\* DONE is always the last packet the host has sent in the attempt: at most
\* one per attempt and no FRAME after it.
C36_CloseOut ==
    /\ [][ (/\ sent' # sent
            /\ Len(sent') > 0
            /\ sent'[Len(sent')].cmd = SVL_CMD_DONE) =>
           (/\ BootloadDecoded
            /\ Len(sent') = Len(sent) + 1
            /\ ~done_sent
            /\ done_sent'
            /\ packet'.cmd = SVL_CMD_NEXT
            /\ WellFormed(packet')
            /\ curr_frame = NFrames(total_len)) ]_vars
    /\ [](\A i \in 1..Len(AttemptSent) :
            AttemptSent[i].cmd = SVL_CMD_DONE => i = Len(AttemptSent))

C36_Witness ==
    /\ pc = "bootload_read"
    /\ done_sent
    /\ packet.cmd = SVL_CMD_NEXT
    /\ NFrames(total_len) = MaxFrames
    /\ Len(AttemptSent) = MaxFrames + 2
    /\ AttemptSent[MaxFrames + 2].cmd = SVL_CMD_DONE

\* C37 (phase gating): BL is sent only in the step of phase_setup that
\* decodes a well-formed VER packet, as the first packet of the attempt,
\* and it is the only BL of the attempt: every FRAME or DONE of the attempt
\* comes after it.
C37_PhaseGating ==
    /\ [][ (/\ sent' # sent
            /\ Len(sent') > 0
            /\ sent'[Len(sent')].cmd = SVL_CMD_BL) =>
           (/\ SetupDecoded
            /\ packet'.cmd = SVL_CMD_VER
            /\ WellFormed(packet')
            /\ Len(sent) = attempt_base
            /\ Len(sent') = Len(sent) + 1) ]_vars
    /\ [](Len(AttemptSent) > 0 =>
            /\ AttemptSent[1].cmd = SVL_CMD_BL
            /\ \A i \in 2..Len(AttemptSent) : AttemptSent[i].cmd # SVL_CMD_BL)

C37_Witness ==
    /\ pc = "bootload_read"
    /\ tries = 3
    /\ Len(AttemptSent) = 2
    /\ AttemptSent[1].cmd = SVL_CMD_BL
    /\ AttemptSent[2].cmd = SVL_CMD_FRAME

\* C38 (Bootload counters): in the Bootload loop 0 <= resend_count <= 4,
\* 0 <= curr_frame <= total_frames + 1, done_sent implies
\* curr_frame = total_frames + 1, resend_count = 4 only once the loop has
\* failed, and the step that brings resend_count to 4 sends nothing.
C38_Counters ==
    /\ [](pc \in {"bootload_read", "bootload_report"} =>
            /\ resend_count \in 0..4
            /\ curr_frame \in 0..(NFrames(total_len) + 1)
            /\ done_sent => curr_frame = NFrames(total_len) + 1
            /\ resend_count = 4 => (pc = "bootload_report" /\ bl_failed))
    /\ [][ (pc \in {"bootload_read", "bootload_report"} /\ resend_count' = 4) =>
           sent' = sent ]_vars

C38_Witness ==
    /\ pc = "bootload_report"
    /\ resend_count = 4
    /\ bl_failed
    /\ curr_frame = MaxFrames
    /\ NFrames(total_len) = MaxFrames


\* a new Uploader session is started
SessionStarts == pc' = "start" /\ pc # "start"

\* C39 (one session at a time): the Upload button is enabled only when the
\* session has emitted `finished`; a new session is started only from that
\* state, with the button enabled, and the start disables the button; the
\* button is re-enabled only by the slot of `finished`, which touches
\* nothing of the session.
C39_OneSession ==
    /\ [](upload_btn => (pc = "finished" /\ HasFinished(out)))
    /\ [][ SessionStarts => (pc = "finished" /\ upload_btn /\ ~upload_btn') ]_vars
    /\ [][ (upload_btn' /\ ~upload_btn) =>
           (pc = "finished" /\ UNCHANGED << pc, sent, out, tries, ser, rx >>) ]_vars

\* a second session has been started: bytes left in the input buffer by
\* the previous one are still there while the buttons are disabled
C39_Witness ==
    /\ pc = "start"
    /\ ~upload_btn
    /\ rx # << >>
    /\ tries = 0

\* C40 (installed_bootloader): within a session installed_bootloader changes
\* only in the step of phase_setup that decodes a well-formed VER packet,
\* to the big-endian value of its data; it is -1 as long as no such packet
\* has been decoded (no BL sent), and the start of an attempt leaves it
\* alone. A new Uploader starts again from -1.
C40_InstalledBootloader ==
    /\ [][ (installed_bootloader' # installed_bootloader) =>
           \/ /\ SetupDecoded
              /\ packet'.cmd = SVL_CMD_VER
              /\ WellFormed(packet')
              /\ installed_bootloader' = WeightedSum(packet'.data, 1)
           \/ /\ SessionStarts
              /\ installed_bootloader' = -1 ]_vars
    /\ [][ (pc = "setup_begin" /\ pc' # pc) =>
           installed_bootloader' = installed_bootloader ]_vars
    /\ [](installed_bootloader # -1 =>
            \E i \in 1..Len(sent) : sent[i].cmd = SVL_CMD_BL)

C40_Witness ==
    /\ pc = "finished"
    /\ installed_bootloader = 256
    /\ succeeded
    /\ packet.cmd = SVL_CMD_DONE

====
